---- MODULE Spec2Model ----
(***************************************************************************)
(* Model of the DNS failover engine of src/dns_failover.py: the class      *)
(* DNSFailover (construction, check_and_failover, get_status) together     *)
(* with the two CloudflareAPI calls it uses.  The health prober and the    *)
(* DNS record store are the environment: their answers are the inputs of   *)
(* each operation.                                                         *)
(***************************************************************************)
EXTENDS Integers, Sequences, FiniteSets, TLC

\* ---------------------------------------------------------------- bounds
MaxThreshold == 2      \* failure_threshold ranges over 1..MaxThreshold
MaxPriority == 2       \* priorities range over 1..MaxPriority
MaxCount == 3          \* no failure count is driven above MaxCount

\* ----------------------------------------------------------- configuration
\* config["servers"]: a dict, iterated in insertion order.
ServerOrder == <<"A", "B", "C">>

Names == {ServerOrder[i] : i \in 1..Len(ServerOrder)}

\* server_config["ip"] of every configured server.
ServerIp == [A |-> "ipA", B |-> "ipB", C |-> "ipC"]

\* Python's None (no record returned, no server chosen).
None == "none"

\* A record content that is the address of no configured server.
ForeignIp == "ipX"

\* What the DNS record store can hold for (domain, type): no record at all,
\* or a record whose content is an address.
DnsContents == {None, ForeignIp} \cup {ServerIp[s] : s \in Names}

\* The priority maps of the model: only the order of the priorities is ever
\* compared, so the values used are 1..k without gaps.
Priorities ==
    {p \in [Names -> 1..MaxPriority] :
        \A v \in 1..MaxPriority :
            (\E s \in Names : p[s] = v) => \A w \in 1..v : \E s \in Names : p[s] = w}

VARIABLES
    priority,               \* config["servers"][s]["priority"]
    failure_threshold,      \* config["monitoring"]["failure_threshold"]
    current_active_server,  \* self.current_active_server
    failure_counts,         \* self.failure_counts
    dns_content,            \* content of the record held by the store
    health,                 \* what the probe of each server answered during the last
                            \* operation (TRUE for a server it did not probe)
    last,                   \* what the last operation did (calls issued, results, log;
                            \* prev: how the operation before it ended, kept only
                            \* where cycles run back to back; status: what
                            \* get_status returned, when it was the operation)
    streak,                 \* the number the last cycle had in a run of consecutive
                            \* cycles whose active server probed unhealthy, the run
                            \* starting at count 0 (0: no such cycle)
    active_history,         \* the servers that have been active, latest last (kept
                            \* only by the end-to-end example)
    service,                \* the DNSFailoverService object: its config, its running
                            \* flag and where start() stands
    probe                   \* one call of ServerMonitor.check_server: its arguments,
                            \* what the network answers, and what it returned

vars == <<priority, failure_threshold, current_active_server, failure_counts,
          dns_content, health, last, streak, active_history, service, probe>>

\* ------------------------------------------------- DNSFailoverService
\* required_sections and required_cf_params of load_config.
RequiredSections == {"cloudflare", "servers", "monitoring", "dns"}

RequiredCfParams == {"api_token", "zone_id", "domain_name"}

\* A cloudflare parameter is set, absent, empty, or still the placeholder
\* YOUR_<PARAM> of the sample file.
ParamValues == {"set", "missing", "empty", "placeholder"}

\* The fewest servers load_config accepts.
MinServers == 2

\* What the configuration file can look like: no file; or a mapping with
\* some of the sections, the cloudflare parameters (none without the
\* section) and a number of servers (none without the section).
ConfigShapes ==
    {c \in [exists : BOOLEAN, sections : SUBSET RequiredSections,
            cloudflare : [RequiredCfParams -> ParamValues],
            servers : 0..Len(ServerOrder)] :
        /\ ~c.exists => c.sections = {}
        /\ "cloudflare" \notin c.sections
              => \A q \in RequiredCfParams : c.cloudflare[q] = "missing"
        /\ "servers" \notin c.sections => c.servers = 0}

\* Mutant of load_config: the number of servers is not looked at.
load_config_any_servers(c) ==
    /\ c.exists
    /\ \A section \in RequiredSections : section \in c.sections
    /\ \A q \in RequiredCfParams : c.cloudflare[q] = "set"

\* load_config: True when the file exists, has every required section,
\* every cloudflare parameter set to something else than its placeholder,
\* and at least two servers.
load_config(c) ==
    IF ~c.exists THEN FALSE
    ELSE IF \E section \in RequiredSections : section \notin c.sections THEN FALSE
    ELSE IF \E q \in RequiredCfParams :
                c.cloudflare[q] \in {"missing", "empty"} \/ c.cloudflare[q] = "placeholder"
    THEN FALSE
    ELSE IF c.servers < MinServers THEN FALSE
    ELSE TRUE

\* The configuration the engine is modelled under: every section, every
\* parameter, the servers of ServerOrder.
LoadedConfig ==
    [exists |-> TRUE, sections |-> RequiredSections,
     cloudflare |-> [q \in RequiredCfParams |-> "set"],
     servers |-> Len(ServerOrder)]

\* The service inside its main loop, between two scheduled jobs.
InMainLoop ==
    [pc |-> "loop", running |-> TRUE, stop_requested |-> FALSE, busy |-> FALSE,
     raised |-> "none", loads |-> 1, config |-> LoadedConfig]

\* No call of check_server under observation.
NoCall == [method |-> "tcp", tcp |-> [raised |-> FALSE, result |-> 0],
           http |-> [raised |-> FALSE, status_code |-> 200], returned |-> "pending"]

\* ---------------------------------------------------------- CloudflareAPI
\* How a read of the store ends: the record, nothing found, or an exception.
GetOutcome(dns, resp) ==
    IF resp = "error" THEN "error"
    ELSE IF dns = None THEN "notfound"
    ELSE "ok"

\* get_dns_record: the record's content, or None when the request raises or
\* the result list is empty.
get_dns_record(dns, resp) ==
    IF GetOutcome(dns, resp) = "ok" THEN dns ELSE None

\* config["cloudflare"]["domain_name"] and config["dns"]: the record's name,
\* type and ttl as configured.
ConfigDns == [domain_name |-> "example.com", record_type |-> "A", ttl |-> 120]

\* The body of the request update_dns_record sends, as _switch_to_server
\* calls it: the configured type, name and ttl, and the new content.
update_request(ip_address) ==
    [type |-> ConfigDns.record_type, name |-> ConfigDns.domain_name,
     content |-> ip_address, ttl |-> ConfigDns.ttl]

\* Mutant of update_dns_record: the request does not carry the new content;
\* the store confirms, the record keeps its content.
update_dns_record_unapplied(dns, ip_address, resp) ==
    [success |-> (resp = "ok"), dns |-> dns]

\* update_dns_record: True only when the store confirms success.  resp is
\* "ok" (applied, confirmed), "reject" (the answer says success false) or
\* "error" (the request raised).
update_dns_record(dns, ip_address, resp) ==
    [success |-> (resp = "ok"),
     dns     |-> IF resp = "ok" THEN ip_address ELSE dns]

\* ------------------------------------------------------------ DNSFailover
\* Mutant of the sort: s goes ahead of the elements of equal priority.
RECURSIVE InsertByPriority_unstable(_, _, _)
InsertByPriority_unstable(seq, s, prio) ==
    IF seq = <<>> THEN <<s>>
    ELSE IF prio[Head(seq)] < prio[s]
         THEN <<Head(seq)>> \o InsertByPriority_unstable(Tail(seq), s, prio)
         ELSE <<s>> \o seq

\* sorted(..., key=priority): a stable insertion of s behind every element
\* whose priority is not larger.
RECURSIVE InsertByPriority(_, _, _)
InsertByPriority(seq, s, prio) ==
    IF seq = <<>> THEN <<s>>
    ELSE IF prio[Head(seq)] <= prio[s]
         THEN <<Head(seq)>> \o InsertByPriority(Tail(seq), s, prio)
         ELSE <<s>> \o seq

RECURSIVE SortedServers(_, _)
SortedServers(seq, prio) ==
    IF seq = <<>> THEN <<>>
    ELSE InsertByPriority(SortedServers(SubSeq(seq, 1, Len(seq) - 1), prio),
                          seq[Len(seq)], prio)

\* sorted(self.config["servers"].items(), key=priority), for every priority
\* map.
SortedByPriority ==
    [prio \in {p : p \in [Names -> 1..MaxPriority \cup 1..Len(ServerOrder)]} |->
        SortedServers(ServerOrder, prio)]

\* sorted_servers of _get_next_available_server.
sorted_servers(prio) == SortedByPriority[prio]

\* min(..., key=priority): the first server, in configuration order, of
\* minimal priority.
RECURSIVE MinByPriority(_, _, _)
MinByPriority(seq, best, prio) ==
    IF seq = <<>> THEN best
    ELSE MinByPriority(Tail(seq),
                       IF prio[Head(seq)] < prio[best] THEN Head(seq) ELSE best,
                       prio)

\* Mutant of _get_highest_priority_server: the first configured server,
\* whatever its priority.
get_highest_priority_server_first(prio) == Head(ServerOrder)

get_highest_priority_server(prio) ==
    MinByPriority(Tail(ServerOrder), Head(ServerOrder), prio)

\* The loop of _determine_current_active_server over config["servers"]: the
\* first server whose ip equals the record's content, None if there is none.
RECURSIVE FindServerByIp(_, _)
FindServerByIp(seq, current_ip) ==
    IF seq = <<>> THEN None
    ELSE IF ServerIp[Head(seq)] = current_ip THEN Head(seq)
    ELSE FindServerByIp(Tail(seq), current_ip)

\* Mutant of _determine_current_active_server: never looks at the record.
determine_current_active_server_default(prio, dns, resp) ==
    get_highest_priority_server(prio)

determine_current_active_server(prio, dns, resp) ==
    LET dns_record == get_dns_record(dns, resp)
        found == IF dns_record # None THEN FindServerByIp(ServerOrder, dns_record)
                 ELSE None
    IN  IF found # None THEN found ELSE get_highest_priority_server(prio)

\* Mutant of _check_server_health: a healthy probe leaves the count alone.
check_server_health_noreset(fc, server_name, is_healthy) ==
    IF is_healthy THEN fc
    ELSE [fc EXCEPT ![server_name] = @ + 1]

\* Mutant of _check_server_health: a failed probe counts twice.
check_server_health_twice(fc, server_name, is_healthy) ==
    IF is_healthy THEN [fc EXCEPT ![server_name] = 0]
    ELSE [fc EXCEPT ![server_name] = @ + 2]

\* _check_server_health: the counter update that follows the probe.
check_server_health(fc, server_name, is_healthy) ==
    IF is_healthy THEN [fc EXCEPT ![server_name] = 0]
    ELSE [fc EXCEPT ![server_name] = @ + 1]

\* The for loop of _get_next_available_server over the sorted servers:
\* skip the active server, probe the others in turn, stop at the first
\* healthy one.
RECURSIVE ScanCandidates(_, _, _, _, _)
ScanCandidates(seq, active, fc, h, probed) ==
    IF seq = <<>> THEN [next |-> None, fc |-> fc, probed |-> probed]
    ELSE IF Head(seq) = active
         THEN ScanCandidates(Tail(seq), active, fc, h, probed)
    ELSE LET s == Head(seq)
             fc2 == check_server_health(fc, s, h[s])
         IN  IF h[s] THEN [next |-> s, fc |-> fc2, probed |-> Append(probed, s)]
             ELSE ScanCandidates(Tail(seq), active, fc2, h, Append(probed, s))

\* Mutant of _get_next_available_server: when no candidate probes healthy the
\* first one tried is returned all the same.
get_next_available_server_fallback(active, fc, prio, h, probed) ==
    LET r == ScanCandidates(sorted_servers(prio), active, fc, h, probed)
    IN  IF r.next = None
        THEN [r EXCEPT !.next = r.probed[Len(probed) + 1]]
        ELSE r

\* Mutant of _get_next_available_server: the first non-active server is
\* returned whatever its probe answered.
get_next_available_server_any(active, fc, prio, h, probed) ==
    LET cands == SelectSeq(sorted_servers(prio), LAMBDA s : s # active)
        c == Head(cands)
    IN  [next |-> c, fc |-> check_server_health(fc, c, h[c]),
         probed |-> Append(probed, c)]

\* _get_next_available_server: the scan over the servers sorted by priority.
get_next_available_server(active, fc, prio, h, probed) ==
    ScanCandidates(sorted_servers(prio), active, fc, h, probed)

\* Mutant of _switch_to_server: the local state is committed whatever the
\* update returned.
switch_to_server_commit_always(new_server, active, fc, dns, getResp, updResp) ==
    LET dns_record == get_dns_record(dns, getResp)
        u == update_dns_record(dns, ServerIp[new_server], updResp)
    IN  IF dns_record = None
        THEN [active |-> new_server, fc |-> [fc EXCEPT ![new_server] = 0], dns |-> dns,
              ret |-> "false", get |-> GetOutcome(dns, getResp), upd |-> "none",
              updates |-> <<>>, report |-> {"lookup_failed"}]
        ELSE [active |-> new_server, fc |-> [fc EXCEPT ![new_server] = 0], dns |-> u.dns,
              ret |-> IF u.success THEN "true" ELSE "false",
              get |-> "ok", upd |-> updResp,
              updates |-> <<update_request(ServerIp[new_server])>>,
              report |-> IF u.success THEN {"switched"} ELSE {"update_failed"}]

\* Mutant of _switch_to_server: the old server's counter is cleared too.
switch_to_server_reset_old(new_server, active, fc, dns, getResp, updResp) ==
    LET dns_record == get_dns_record(dns, getResp)
        u == update_dns_record(dns, ServerIp[new_server], updResp)
    IN  IF dns_record = None
        THEN [active |-> active, fc |-> fc, dns |-> dns, ret |-> "false",
              get |-> GetOutcome(dns, getResp), upd |-> "none",
              updates |-> <<>>, report |-> {"lookup_failed"}]
        ELSE IF u.success
        THEN [active |-> new_server,
              fc |-> [fc EXCEPT ![new_server] = 0, ![active] = 0],
              dns |-> u.dns, ret |-> "true", get |-> "ok", upd |-> updResp,
              updates |-> <<update_request(ServerIp[new_server])>>, report |-> {"switched"}]
        ELSE [active |-> active, fc |-> fc, dns |-> u.dns, ret |-> "false",
              get |-> "ok", upd |-> updResp,
              updates |-> <<update_request(ServerIp[new_server])>>, report |-> {"update_failed"}]

\* _switch_to_server: re-fetch the record, request the update, commit the
\* local state only when the update returned True.
switch_to_server(new_server, active, fc, dns, getResp, updResp) ==
    LET dns_record == get_dns_record(dns, getResp)
        u == update_dns_record(dns, ServerIp[new_server], updResp)
    IN  IF dns_record = None
        THEN [active |-> active, fc |-> fc, dns |-> dns, ret |-> "false",
              get |-> GetOutcome(dns, getResp), upd |-> "none",
              updates |-> <<>>, report |-> {"lookup_failed"}]
        ELSE IF u.success
        THEN [active |-> new_server, fc |-> [fc EXCEPT ![new_server] = 0],
              dns |-> u.dns, ret |-> "true", get |-> "ok", upd |-> updResp,
              updates |-> <<update_request(ServerIp[new_server])>>, report |-> {"switched"}]
        ELSE [active |-> active, fc |-> fc, dns |-> u.dns, ret |-> "false",
              get |-> "ok", upd |-> updResp,
              updates |-> <<update_request(ServerIp[new_server])>>, report |-> {"update_failed"}]

\* The result of a cycle that issued no store call.
NoSwitch(active, fc, dns, probed, report) ==
    [active |-> active, fc |-> fc, dns |-> dns, ret |-> "none", get |-> "none",
     upd |-> "none", updates |-> <<>>, report |-> report, probed |-> probed]

\* Mutant of the threshold test of check_and_failover: strictly greater.
threshold_exceeded_strict(count, threshold) == count > threshold

\* Mutant of the threshold test of check_and_failover: trips one probe early.
threshold_exceeded_early(count, threshold) == count + 1 >= threshold

\* Mutant of the threshold test of check_and_failover: trips on the
\* threshold-th failure only, not beyond it.
threshold_exceeded_exact(count, threshold) == count = threshold

\* The threshold test of check_and_failover.
threshold_exceeded(count, threshold) == count >= threshold

\* check_and_failover: one cycle.
check_and_failover(active, fc, dns, threshold, prio, h, getResp, updResp) ==
    IF active = None
    THEN NoSwitch(active, fc, dns, <<>>, {"no_active"})
    ELSE
    LET fc1 == check_server_health(fc, active, h[active])
    IN  IF h[active]
        THEN NoSwitch(active, fc1, dns, <<active>>, {})
        ELSE IF ~threshold_exceeded(fc1[active], threshold)
        THEN NoSwitch(active, fc1, dns, <<active>>, {})
        ELSE LET sel == get_next_available_server(active, fc1, prio, h, <<active>>)
             IN  IF sel.next = None
                 THEN NoSwitch(active, sel.fc, dns, sel.probed,
                               {"threshold", "no_candidate"})
                 ELSE LET sw == switch_to_server(sel.next, active, sel.fc, dns,
                                                 getResp, updResp)
                      IN  [active |-> sw.active, fc |-> sw.fc, dns |-> sw.dns,
                           ret |-> sw.ret, get |-> sw.get, upd |-> sw.upd,
                           updates |-> sw.updates,
                           report |-> sw.report \cup {"threshold"},
                           probed |-> sel.probed]

\* What can raise inside a cycle besides the store's requests and the probes'
\* connections, whose exceptions get_dns_record, update_dns_record and the
\* monitor catch themselves: the probe call of one server (a lookup in its
\* configuration raises before any count is written), or a statement of
\* _switch_to_server ahead of its requests.
Faults == {"none", "switch"} \cup Names

\* The servers sorted ahead of server s.
ServersBefore(seq, s) ==
    LET i == CHOOSE k \in 1..Len(seq) : seq[k] = s
    IN  SubSeq(seq, 1, i - 1)

\* The statements of check_and_failover inside its try, under a fault: what
\* they have done when they return or raise (exc: an exception leaves them).
check_and_failover_body(active, fc, dns, threshold, prio, h, getResp, updResp, fault) ==
    LET r == check_and_failover(active, fc, dns, threshold, prio, h, getResp, updResp)
        fc1 == check_server_health(fc, active, h[active])
    IN  IF fault = "none" \/ active = None
        THEN [engine |-> r, exc |-> FALSE]
        ELSE IF fault = active
        THEN [engine |-> NoSwitch(active, fc, dns, <<>>, {}), exc |-> TRUE]
        ELSE IF fault = "switch"
        THEN IF r.ret = "none"
             THEN [engine |-> r, exc |-> FALSE]
             ELSE \* caught by the except of _switch_to_server: returns False
                  [engine |-> [r EXCEPT !.active = active,
                                        !.dns = dns, !.ret = "false",
                                        !.get = "none", !.upd = "none",
                                        !.updates = <<>>,
                                        !.report = {"threshold", "switch_error"}],
                   exc |-> FALSE]
        ELSE IF h[active] \/ ~threshold_exceeded(fc1[active], threshold)
        THEN [engine |-> r, exc |-> FALSE]
        ELSE LET ahead == ScanCandidates(ServersBefore(sorted_servers(prio), fault),
                                         active, fc1, h, <<active>>)
             IN  IF ahead.next # None
                 THEN [engine |-> r, exc |-> FALSE]
                 ELSE [engine |-> NoSwitch(active, ahead.fc, dns, ahead.probed,
                                           {"threshold"}),
                       exc |-> TRUE]

\* Mutant of the except clause of check_and_failover: the exception is let
\* through.
check_and_failover_except_reraise(r) == r

\* except Exception of check_and_failover: the error is logged, the call
\* returns.
check_and_failover_except(r) ==
    IF r.exc
    THEN [engine |-> [r.engine EXCEPT !.report = @ \cup {"error"}], exc |-> FALSE]
    ELSE r

\* except Exception of run_check: the error is logged, the call returns.
run_check_except(r) ==
    IF r.exc
    THEN [engine |-> [r.engine EXCEPT !.report = @ \cup {"check_error"}], exc |-> FALSE]
    ELSE r

\* The for loop of get_status: every configured server is probed, in
\* configuration order.
RECURSIVE ProbeAll(_, _, _)
ProbeAll(seq, fc, h) ==
    IF seq = <<>> THEN fc
    ELSE ProbeAll(Tail(seq), check_server_health(fc, Head(seq), h[Head(seq)]), h)

\* The loop of get_status over config["servers"]: one entry per server, with
\* the verdict of its probe and its count read after the probe.
RECURSIVE StatusServers(_, _, _)
StatusServers(seq, fc, h) ==
    IF seq = <<>> THEN <<>>
    ELSE LET s == Head(seq)
             fc2 == check_server_health(fc, s, h[s])
         IN  <<[name |-> s, healthy |-> h[s], failure_count |-> fc2[s]]>>
             \o StatusServers(Tail(seq), fc2, h)

get_status(active, fc, h) ==
    [fc |-> ProbeAll(ServerOrder, fc, h), probed |-> ServerOrder,
     status |-> [current_active_server |-> active,
                 servers |-> StatusServers(ServerOrder, fc, h)]]

\* ------------------------------------------------------------- the system
\* The number the cycle about to run has in the current run of consecutive
\* unhealthy cycles of the active server (0: the run did not start at count 0).
RunLength ==
    IF failure_counts[current_active_server] = 0 THEN 1
    ELSE IF streak > 0 THEN streak + 1
    ELSE 0

\* DNSFailover.__init__ under configuration (p, t): counters at 0, active
\* server resolved from the store.
Construct(p, t) ==
    \E d \in DnsContents, r \in {"ok", "error"} :
        /\ priority = p
        /\ failure_threshold = t
        /\ dns_content = d
        /\ failure_counts = [s \in Names |-> 0]
        /\ current_active_server = determine_current_active_server(p, d, r)
        /\ health = [s \in Names |-> TRUE]
        /\ last = [op |-> "init", probed |-> <<>>, get |-> GetOutcome(d, r),
                   upd |-> "none", updates |-> <<>>, ret |-> "none", report |-> {},
                   prev |-> "none"]
        /\ streak = 0
        /\ service = InMainLoop
        /\ probe = NoCall

Init ==
    /\ \E p \in Priorities, t \in 1..MaxThreshold : Construct(p, t)
    /\ active_history = <<>>

\* How an operation ended, as far as the next cycle is concerned: with a
\* switch, with a failed switch attempt, without a healthy candidate, or
\* without reaching the threshold branch at all.
Outcome(l) ==
    IF l.op # "cycle" THEN "none"
    ELSE IF l.ret = "true" THEN "switched"
    ELSE IF l.ret = "false" THEN "switch_failed"
    ELSE IF "no_candidate" \in l.report THEN "no_candidate"
    ELSE "none"

\* The latest three entries of the record of active servers.
KeepLatest(seq) ==
    IF Len(seq) <= 3 THEN seq ELSE SubSeq(seq, Len(seq) - 2, Len(seq))

\* One call of check_and_failover, run to completion; no count is driven
\* above cap.  track: the succession of active servers is recorded;
\* remember: the outcome of the previous operation is recorded.
CheckAndFailoverStep(track, cap, remember) ==
    \E h \in [Names -> BOOLEAN] :
      \* the cycle with a store that answers: which answers does it ask for?
      LET asked == check_and_failover(current_active_server, failure_counts,
                                      dns_content, failure_threshold, priority,
                                      h, "ok", "ok")
      IN
      \* an answer the cycle does not ask for is not enumerated
      /\ \A s \in Names : (\A i \in 1..Len(asked.probed) : asked.probed[i] # s) => h[s]
      /\ \E g \in (IF asked.get = "none" THEN {"ok"} ELSE {"ok", "error"}),
            u \in (IF asked.upd = "none" THEN {"ok"} ELSE {"ok", "reject", "error"}) :
        LET r == check_and_failover(current_active_server, failure_counts, dns_content,
                                    failure_threshold, priority, h, g, u)
        IN  /\ \A s \in Names : r.fc[s] <= cap
            /\ r.upd = "none" => u = "ok"
            /\ current_active_server' = r.active
            /\ failure_counts' = r.fc
            /\ dns_content' = r.dns
            /\ health' = h
            /\ last' = [op |-> "cycle", probed |-> r.probed, get |-> r.get,
                        upd |-> r.upd, updates |-> r.updates, ret |-> r.ret,
                        report |-> r.report,
                        prev |-> IF remember THEN Outcome(last) ELSE "none"]
            /\ streak' = IF h[current_active_server] THEN 0 ELSE RunLength
            /\ active_history' = IF track /\ r.active # current_active_server
                                 THEN KeepLatest(Append(active_history, r.active))
                                 ELSE active_history
            /\ UNCHANGED <<priority, failure_threshold, service, probe>>

CheckAndFailover == CheckAndFailoverStep(FALSE, MaxCount, FALSE)

\* One call of get_status.
GetStatus ==
    \E h \in [Names -> BOOLEAN] :
        LET r == get_status(current_active_server, failure_counts, h)
        IN  /\ \A s \in Names : r.fc[s] <= MaxCount
            /\ failure_counts' = r.fc
            /\ health' = h
            /\ last' = [op |-> "status", probed |-> r.probed, get |-> "none",
                        upd |-> "none", updates |-> <<>>, ret |-> "none", report |-> {},
                        prev |-> "none", status |-> r.status]
            /\ streak' = 0
            /\ UNCHANGED <<priority, failure_threshold, current_active_server,
                           dns_content, active_history, service, probe>>

Next == CheckAndFailover \/ GetStatus

Spec == Init /\ [][Next]_vars

\* The end-to-end example: servers A, B, C of priority 1, 2, 3 and a threshold
\* of 3 failures, the succession of active servers being recorded.
ExamplePriority == [A |-> 1, B |-> 2, C |-> 3]

InitExample ==
    /\ Construct(ExamplePriority, 3)
    /\ active_history = <<current_active_server>>

\* A failed over at 3 failures is probed once more when B fails over.
CheckAndFailoverExample == CheckAndFailoverStep(TRUE, MaxCount + 1, FALSE)

NextExample == CheckAndFailoverExample \/ GetStatus

SpecExample == InitExample /\ [][NextExample]_vars

\* Cycles run back to back, as the scheduler runs them between two status
\* reports, each remembering how the one before it ended.
CheckAndFailoverAgain == CheckAndFailoverStep(FALSE, MaxCount, TRUE)

NextCycles == CheckAndFailoverAgain

SpecCycles == Init /\ [][NextCycles]_vars

\* ------------------------------------------- cycles in a lasting environment
\* Here health is what each server answers to a probe now, whoever probes
\* it and whenever: the servers' condition lasts from cycle to cycle until
\* it changes.
EnvironmentChanges ==
    /\ health' \in [Names -> BOOLEAN] \ {health}
    /\ UNCHANGED <<priority, failure_threshold, current_active_server,
                   failure_counts, dns_content, last, streak, active_history,
                   service, probe>>

\* One scheduled cycle, the servers answering as health says and the store
\* answering g to the read and u to the update.
ScheduledCycle(g, u) ==
    \E r \in {check_and_failover(current_active_server, failure_counts, dns_content,
                                  failure_threshold, priority, health, g, u)} :
        /\ \A s \in Names : r.fc[s] <= MaxCount
        /\ current_active_server' = r.active
        /\ failure_counts' = r.fc
        /\ dns_content' = r.dns
        /\ last' = [op |-> "cycle", probed |-> r.probed, get |-> r.get,
                    upd |-> r.upd, updates |-> r.updates, ret |-> r.ret,
                    report |-> r.report, prev |-> "none"]
        /\ UNCHANGED <<priority, failure_threshold, health, streak,
                       active_history, service, probe>>

\* A scheduled cycle during which the store's read and update succeed.
CycleStoreAnswers == ScheduledCycle("ok", "ok")

\* A scheduled cycle that does ask the store and whose read raises, or
\* whose update is rejected or raises.
CycleStoreFails ==
    /\ check_and_failover(current_active_server, failure_counts, dns_content,
                          failure_threshold, priority, health, "ok", "ok").get # "none"
    /\ \/ ScheduledCycle("error", "ok")
       \/ ScheduledCycle("ok", "reject")
       \/ ScheduledCycle("ok", "error")

NextLive == EnvironmentChanges \/ CycleStoreAnswers \/ CycleStoreFails

\* The engine as constructed, with all priorities different or all equal.
InitLive ==
    /\ \E p \in {ExamplePriority, [s \in Names |-> 1]}, t \in 1..MaxThreshold :
           Construct(p, t)
    /\ active_history = <<>>

\* schedule.every(check_interval).seconds.do(run_check) inside the loop of
\* start(): cycles keep being run, and cycles whose store requests succeed
\* keep occurring.
SpecLive == InitLive /\ [][NextLive]_vars /\ WF_vars(CycleStoreAnswers)

\* --------------------------------------------------- the service, start()
\* The engine's variables: untouched by the steps of the service that do not
\* call it.
engine == <<priority, failure_threshold, current_active_server, failure_counts,
            dns_content, health, last, streak, active_history>>

\* DNSFailoverService.__init__: nothing loaded, no engine, not running; the
\* signal handlers are installed.
InitService ==
    /\ \E c \in ConfigShapes :
          service = [pc |-> "created", running |-> FALSE, stop_requested |-> FALSE,
                     busy |-> FALSE, raised |-> "none", loads |-> 0, config |-> c]
    /\ priority = ExamplePriority
    /\ failure_threshold = MaxThreshold
    /\ dns_content \in DnsContents
    /\ current_active_server = None
    /\ failure_counts = [s \in Names |-> 0]
    /\ health = [s \in Names |-> TRUE]
    /\ last = [op |-> "none", probed |-> <<>>, get |-> "none", upd |-> "none",
               updates |-> <<>>, ret |-> "none", report |-> {}, prev |-> "none"]
    /\ streak = 0
    /\ active_history = <<>>
    /\ probe = NoCall

\* start(): load_config, and sys.exit(1) when it returns False.
LoadConfig ==
    /\ service.pc = "created"
    /\ service' = [service EXCEPT
                      !.loads = @ + 1,
                      !.pc = IF load_config(service.config) THEN "loaded" ELSE "exited"]
    /\ UNCHANGED <<engine, probe>>

\* start(): initialize_failover, which constructs the engine (the engine of
\* the servers of ServerOrder is the one modelled).
InitializeFailover ==
    /\ service.pc = "loaded"
    /\ service.config.servers = Len(ServerOrder)
    /\ \E r \in {"ok", "error"} :
          /\ current_active_server'
                = determine_current_active_server(priority, dns_content, r)
          /\ last' = [op |-> "init", probed |-> <<>>,
                      get |-> GetOutcome(dns_content, r), upd |-> "none",
                      updates |-> <<>>, ret |-> "none", report |-> {}, prev |-> "none"]
    /\ service' = [service EXCEPT !.pc = "initial_check"]
    /\ UNCHANGED <<priority, failure_threshold, failure_counts, dns_content, health,
                   streak, active_history, probe>>

\* run_check is entered: by start() for the first check, or by
\* schedule.run_pending() inside the loop, whose test found running set.
BeginRunCheck ==
    /\ ~service.busy
    /\ \/ service.pc = "initial_check"
       \/ service.pc = "loop" /\ service.running
    /\ service' = [service EXCEPT !.busy = TRUE]
    /\ UNCHANGED <<engine, probe>>

\* run_check runs to its end.
FinishRunCheck ==
    /\ service.busy
    /\ \E h \in [Names -> BOOLEAN], fault \in Faults :
        LET asked == check_and_failover(current_active_server, failure_counts,
                                        dns_content, failure_threshold, priority,
                                        h, "ok", "ok")
        IN
        /\ \A s \in Names : (\A i \in 1..Len(asked.probed) : asked.probed[i] # s) => h[s]
        /\ \E g \in (IF asked.get = "none" THEN {"ok"} ELSE {"ok", "error"}),
              u \in (IF asked.upd = "none" THEN {"ok"} ELSE {"ok", "reject", "error"}) :
          LET body == check_and_failover_body(current_active_server, failure_counts,
                                              dns_content, failure_threshold,
                                              priority, h, g, u, fault)
              inner == check_and_failover_except(body)
              outer == run_check_except(inner)
              r == outer.engine
          IN  /\ \A s \in Names : r.fc[s] <= MaxCount
              /\ current_active_server' = r.active
              /\ failure_counts' = r.fc
              /\ dns_content' = r.dns
              /\ health' = [s \in Names |->
                               (\E i \in 1..Len(r.probed) : r.probed[i] = s) => h[s]]
              /\ last' = [op |-> "cycle", probed |-> r.probed, get |-> r.get,
                          upd |-> r.upd, updates |-> r.updates, ret |-> r.ret,
                          report |-> r.report, prev |-> "none"]
              /\ service' = [service EXCEPT
                                !.busy = FALSE,
                                !.raised = IF outer.exc THEN "run_check"
                                           ELSE IF inner.exc THEN "check_and_failover"
                                           ELSE "none",
                                !.pc = IF outer.exc THEN "exited"
                                       ELSE IF service.pc = "initial_check"
                                       THEN "initial_status"
                                       ELSE "loop"]
    /\ UNCHANGED <<priority, failure_threshold, streak, active_history, probe>>

\* print_status: by start() after the first check, or by the scheduler.
PrintStatus ==
    /\ ~service.busy
    /\ \/ service.pc = "initial_status"
       \/ service.pc = "loop" /\ service.running
    /\ \E h \in [Names -> BOOLEAN] :
        LET r == get_status(current_active_server, failure_counts, h)
        IN  /\ \A s \in Names : r.fc[s] <= MaxCount
            /\ failure_counts' = r.fc
            /\ health' = h
            /\ last' = [op |-> "status", probed |-> r.probed, get |-> "none",
                        upd |-> "none", updates |-> <<>>, ret |-> "none",
                        report |-> {}, prev |-> "none", status |-> r.status]
    /\ service' = [service EXCEPT
                      !.pc = IF service.pc = "initial_status" THEN "starting" ELSE @]
    /\ UNCHANGED <<priority, failure_threshold, current_active_server, dns_content,
                   streak, active_history, probe>>

\* start(): the jobs are scheduled, then self.running = True.
SetRunning ==
    /\ service.pc = "starting"
    /\ service' = [service EXCEPT !.running = TRUE, !.pc = "loop"]
    /\ UNCHANGED <<engine, probe>>

\* The loop's test finds running cleared: start() leaves the loop and calls
\* stop() in its finally clause.
ExitLoop ==
    /\ service.pc = "loop"
    /\ ~service.busy
    /\ ~service.running
    /\ service' = [service EXCEPT !.pc = "exited"]
    /\ UNCHANGED <<engine, probe>>

\* _signal_handler on SIGINT or SIGTERM, whatever start() is doing: stop()
\* clears the running flag.
SignalHandler ==
    /\ service.pc # "exited"
    /\ service' = [service EXCEPT !.running = FALSE, !.stop_requested = TRUE]
    /\ UNCHANGED <<engine, probe>>

NextService ==
    \/ LoadConfig
    \/ InitializeFailover
    \/ BeginRunCheck
    \/ FinishRunCheck
    \/ PrintStatus
    \/ SetRunning
    \/ ExitLoop
    \/ SignalHandler

SpecService == InitService /\ [][NextService]_vars

\* ------------------------------------------------------------ properties
\* The servers an operation probed.
Probed(l) == {l.probed[i] : i \in 1..Len(l.probed)}

\* The server that was active when the last cycle started: the first probed.
OldActive == last.probed[1]

\* No call to the DNS record store failed during the operation.
StoreSucceeded(l) == l.get \in {"none", "ok"} /\ l.upd \in {"none", "ok"}

\* This step is a cycle in which the active server probes unhealthy.
UnhealthyCycle == last'.op = "cycle" /\ ~health'[current_active_server]

\* The counters as the probes of this step leave them: 0 after a healthy
\* probe, one more after an unhealthy one, untouched for a server not probed.
CountsAfterProbes ==
    [s \in Names |->
        IF s \in Probed(last')
        THEN (IF health'[s] THEN 0 ELSE failure_counts[s] + 1)
        ELSE failure_counts[s]]

\* C1: on the T-th consecutive cycle in which the active server, starting at
\* count 0, probes unhealthy, with some alternative probing healthy and the
\* store read and update succeeding, the active server becomes a healthy
\* alternative that no healthy alternative beats in priority, its count is 0
\* and the record's content is its address.
C1_FailoverOnThresholdCycle ==
    [][(/\ UnhealthyCycle
        /\ RunLength = failure_threshold
        /\ \E s \in Names \ {current_active_server} : health'[s]
        /\ StoreSucceeded(last'))
       => /\ current_active_server' # current_active_server
          /\ health'[current_active_server']
          /\ \A s \in Names \ {current_active_server} :
                health'[s] => priority[current_active_server'] <= priority[s]
          /\ failure_counts'[current_active_server'] = 0
          /\ dns_content' = ServerIp[current_active_server']]_vars

\* C1 witness: a run of T = MaxThreshold unhealthy cycles ended in a switch
\* to the second candidate tried, the first one having probed unhealthy.
C1_Witness ==
    /\ last.op = "cycle"
    /\ last.ret = "true"
    /\ failure_threshold = MaxThreshold
    /\ streak = failure_threshold
    /\ Len(last.probed) = 3
    /\ dns_content = ServerIp[current_active_server]

\* C2: after N < threshold consecutive cycles in which the active server,
\* starting at count 0, probed unhealthy, the N-th cycle requested no read and
\* no update and probed nobody but the active server, which is still the
\* active server, and its count is N.
C2_NoSwitchBelowThreshold ==
    (last.op = "cycle" /\ streak >= 1 /\ streak < failure_threshold)
    => /\ last.probed = <<current_active_server>>
       /\ failure_counts[current_active_server] = streak
       /\ last.updates = <<>>
       /\ last.get = "none"
       /\ last.ret = "none"

\* C2 witness: one unhealthy cycle under a threshold of two or more.
C2_Witness ==
    /\ last.op = "cycle"
    /\ streak >= 1
    /\ streak < failure_threshold
    /\ ~health[current_active_server]

\* C3: after a cycle in which the active server probed healthy its count is
\* 0, it is still the active server, nobody else was probed and the store was
\* not called; one more such cycle, whatever the inputs, changes nothing.
C3_HealthyCycleIdempotent ==
    (last.op = "cycle" /\ health[OldActive])
    => /\ last.probed = <<current_active_server>>
       /\ failure_counts[current_active_server] = 0
       /\ last.updates = <<>>
       /\ last.get = "none"
       /\ \A h \in [Names -> BOOLEAN], g \in {"ok", "error"},
             u \in {"ok", "reject", "error"} :
            h[current_active_server]
            => LET r == check_and_failover(current_active_server, failure_counts,
                                           dns_content, failure_threshold, priority,
                                           h, g, u)
               IN  /\ r.active = current_active_server
                   /\ r.fc = failure_counts
                   /\ r.dns = dns_content
                   /\ r.probed = last.probed
                   /\ r.updates = <<>>

\* C3 witness: a healthy cycle of an active server while another server's
\* count is not 0.
C3_Witness ==
    /\ last.op = "cycle"
    /\ health[OldActive]
    /\ \E s \in Names : failure_counts[s] > 0

\* C4: after a cycle in which the active server's count reached the
\* threshold and every other server probed unhealthy, the active server is
\* unchanged, the store was neither read nor written, and "no healthy
\* alternative" was reported.
C4_NoCandidate ==
    (/\ last.op = "cycle"
     /\ ~health[OldActive]
     /\ failure_counts[OldActive] >= failure_threshold
     /\ \A s \in Names \ {OldActive} : ~health[s])
    => /\ current_active_server = OldActive
       /\ last.get = "none"
       /\ last.upd = "none"
       /\ last.updates = <<>>
       /\ "no_candidate" \in last.report

\* C4 witness: a tripped cycle that probed both alternatives, both unhealthy.
C4_Witness ==
    /\ last.op = "cycle"
    /\ "no_candidate" \in last.report
    /\ Len(last.probed) = 3
    /\ \A s \in Names : ~health[s]

\* C5: the active server is always a configured server, and it changes only
\* in a cycle whose switch got a confirmed update carrying the address of the
\* new active server.
C5_ActiveServerChangesOnlyOnConfirmedUpdate ==
    /\ current_active_server \in Names
    /\ [][/\ current_active_server' \in Names
          /\ current_active_server' # current_active_server
             => /\ last'.op = "cycle"
                /\ last'.upd = "ok"
                /\ last'.ret = "true"
                /\ last'.updates = <<update_request(ServerIp[current_active_server'])>>
                /\ dns_content' = ServerIp[current_active_server']]_vars

\* C5 witness: a cycle has switched the active server.
C5_Witness ==
    /\ last.op = "cycle"
    /\ last.ret = "true"
    /\ current_active_server # OldActive

\* C6 as stated: a cycle changes the count of no server but the active one,
\* apart from setting to 0 the count of the candidate it switches to.
C6_OnlyActiveCountChanges ==
    [][last'.op = "cycle"
       => \A s \in Names \ {current_active_server} :
            \/ failure_counts'[s] = failure_counts[s]
            \/ /\ s = current_active_server'
               /\ last'.ret = "true"
               /\ failure_counts'[s] = 0]_vars

\* C6 amended: a cycle changes the count of a server only by probing it: the
\* active server and every candidate probed during selection end at 0 if
\* they probed healthy and one higher if not, whether or not a switch
\* follows; a server that was not probed keeps its count.
C6_CountsChangeOnlyByProbes ==
    [][last'.op = "cycle" => failure_counts' = CountsAfterProbes]_vars

\* C6 witness: a cycle probed a candidate that was unhealthy and whose count
\* is now at least 2.
C6_Witness ==
    /\ last.op = "cycle"
    /\ Len(last.probed) >= 2
    /\ ~health[last.probed[2]]
    /\ failure_counts[last.probed[2]] >= 2

\* C7: when the update requested by the switch fails (rejected by the store,
\* or the request raises), the active server, the counters as the probes
\* left them and the record are unchanged, the switch returns False and
\* exactly one update was requested.
C7_FailedUpdateLeavesState ==
    [][(last'.op = "cycle" /\ last'.upd \in {"reject", "error"})
       => /\ current_active_server' = current_active_server
          /\ failure_counts' = CountsAfterProbes
          /\ dns_content' = dns_content
          /\ last'.ret = "false"
          /\ Len(last'.updates) = 1]_vars

\* C7 witness: a cycle whose update request raised, the active server being
\* at the threshold still.
C7_Witness ==
    /\ last.op = "cycle"
    /\ last.upd = "error"
    /\ last.ret = "false"
    /\ failure_counts[current_active_server] >= failure_threshold

\* C8: when the switch's read of the record returns nothing (no record, or
\* the read raises), no update is requested, the switch returns False and the
\* active server, the counters as the probes left them and the record are
\* unchanged.
C8_FailedLookupAbortsSwitch ==
    [][(last'.op = "cycle" /\ last'.get \in {"notfound", "error"})
       => /\ last'.updates = <<>>
          /\ last'.upd = "none"
          /\ last'.ret = "false"
          /\ current_active_server' = current_active_server
          /\ failure_counts' = CountsAfterProbes
          /\ dns_content' = dns_content]_vars

\* C8 witness: a cycle found a healthy candidate and the store had no record.
C8_Witness ==
    /\ last.op = "cycle"
    /\ last.get = "notfound"
    /\ "lookup_failed" \in last.report
    /\ Len(last.probed) >= 2

\* C9: a successful switch from X to Y leaves Y's count at 0 and X's count at
\* the value the cycle's probe of X gave it, which is at least the threshold,
\* and exactly the threshold when X's failures began at count 0.
C9_SwitchKeepsOldCount ==
    [][(last'.op = "cycle" /\ last'.ret = "true")
       => /\ current_active_server' # current_active_server
          /\ failure_counts'[current_active_server'] = 0
          /\ failure_counts'[current_active_server]
                = failure_counts[current_active_server] + 1
          /\ failure_counts'[current_active_server] >= failure_threshold
          /\ RunLength = failure_threshold
             => failure_counts'[current_active_server] = failure_threshold]_vars

\* C9 witness: after a switch the old active server's count is the threshold
\* MaxThreshold and the new one's is 0.
C9_Witness ==
    /\ last.op = "cycle"
    /\ last.ret = "true"
    /\ failure_threshold = MaxThreshold
    /\ streak = failure_threshold
    /\ failure_counts[OldActive] = failure_threshold
    /\ failure_counts[current_active_server] = 0

\* This step is the third consecutive unhealthy cycle of B, active since a
\* failover from A, in the end-to-end example; C probes healthy and no call
\* to the store fails.
ExampleThirdFailureOfB ==
    /\ priority = ExamplePriority
    /\ failure_threshold = 3
    /\ Len(active_history) >= 2
    /\ active_history[Len(active_history) - 1] = "A"
    /\ active_history[Len(active_history)] = "B"
    /\ current_active_server = "B"
    /\ UnhealthyCycle
    /\ RunLength = 3
    /\ health'["C"]
    /\ StoreSucceeded(last')

\* C10 as stated: in the example, after a failover from A to B, the third
\* consecutive failure of B while C is healthy makes C the active server.
C10_ExampleSwitchToC ==
    [][ExampleThirdFailureOfB => current_active_server' = "C"]_vars

\* C10 amended: in the example, after a failover from A to B, the third
\* consecutive failure of B while C is healthy and A still probes unhealthy
\* makes C the active server (the store's read and update succeeding); the
\* record's content is then C's address and C's count 0.
C10_ExampleSwitchToCWhenADown ==
    [][(ExampleThirdFailureOfB /\ ~health'["A"])
       => /\ current_active_server' = "C"
          /\ dns_content' = ServerIp["C"]
          /\ failure_counts'["C"] = 0]_vars

\* C10 witness: A, then B, then C have been active, C since the third
\* failure of B, A having probed unhealthy in that cycle.
C10_Witness ==
    /\ active_history = <<"A", "B", "C">>
    /\ current_active_server = "C"
    /\ last.op = "cycle"
    /\ last.probed = <<"B", "A", "C">>
    /\ streak = 3
    /\ ~health["A"]

\* C11: when a cycle has switched to a server and that server probes
\* unhealthy in the very next cycle, its count is exactly 1 after that cycle.
C11_CountOneAfterSwitchThenFailure ==
    (last.op = "cycle" /\ last.prev = "switched" /\ ~health[OldActive])
    => failure_counts[OldActive] = 1

\* C11 witness: the server switched to in the cycle before has just probed
\* unhealthy, and the cycle went on to try the others.
C11_Witness ==
    /\ last.op = "cycle"
    /\ last.prev = "switched"
    /\ ~health[OldActive]
    /\ failure_counts[OldActive] = 1
    /\ Len(last.probed) >= 2

\* The state is the one construction left: no cycle and no status report yet.
Constructed == last.op = "init"

\* Construction has issued no update request and no probe: the record is as
\* the store held it, and no count and no verdict has been recorded.
ConstructionOnlyReads ==
    /\ last.updates = <<>>
    /\ last.upd = "none"
    /\ last.probed = <<>>
    /\ failure_counts = [s \in Names |-> 0]

\* C12 as stated: after construction, if the record exists and its content
\* is the address of a configured server, that server is the active server,
\* and construction has issued no update request and no probe.
C12_ActiveIsRecordedServer ==
    Constructed
    => \A s \in Names :
          dns_content = ServerIp[s]
          => current_active_server = s /\ ConstructionOnlyReads

\* C12 amended: after a construction whose read of the store succeeded, if
\* the record exists and its content is the address of a configured server,
\* that server is the active server; construction has issued no update
\* request and no probe, whether the read succeeded or not.
C12_ActiveIsRecordedServerWhenRead ==
    Constructed
    => /\ ConstructionOnlyReads
       /\ last.get = "ok"
          => \A s \in Names :
                dns_content = ServerIp[s] => current_active_server = s

\* C12 witness: construction read a record holding B's address, B not being
\* the priority default, and made B the active server.
C12_Witness ==
    /\ Constructed
    /\ last.get = "ok"
    /\ dns_content = ServerIp["B"]
    /\ current_active_server = "B"
    /\ get_highest_priority_server(priority) # "B"
    /\ ConstructionOnlyReads

\* Construction found no server in the store: the read failed, there is no
\* record, or the record's content is no configured server's address.
NoServerResolved ==
    \/ last.get \in {"notfound", "error"}
    \/ dns_content \notin {ServerIp[s] : s \in Names}

\* C13: construction always leaves a configured server as the active server;
\* when the record is absent, matches no configured server's address or
\* cannot be read, it is a server of numerically smallest priority.
C13_FallbackToSmallestPriority ==
    Constructed
    => /\ current_active_server \in Names
       /\ NoServerResolved
          => \A s \in Names :
                priority[current_active_server] <= priority[s]

\* C13 witness: the record holds a foreign address, and the active server is
\* B, whose priority is smaller than that of A, the first configured server.
C13_Witness ==
    /\ Constructed
    /\ last.get = "ok"
    /\ dns_content = ForeignIp
    /\ current_active_server = "B"
    /\ priority["B"] < priority["A"]

\* Every verdict map the probes of one selection can produce.
Verdicts == [Names -> BOOLEAN]

\* What _get_next_available_server returns in this state under verdicts h.
Selected(h) ==
    get_next_available_server(current_active_server, failure_counts,
                              priority, h, <<>>).next

\* C14: in every reachable state and under every verdict map, the selector
\* does not return the active server; it returns None exactly when every
\* other server probes unhealthy, and otherwise a server that probes healthy
\* and that no other healthy non-active server beats in priority, whatever
\* the stored counts are.
C14_SelectorFirstHealthyByPriority ==
    \A h \in Verdicts :
        LET candidates == Names \ {current_active_server}
        IN  /\ Selected(h) # current_active_server
            /\ Selected(h) = None <=> \A s \in candidates : ~h[s]
            /\ Selected(h) # None
               => /\ Selected(h) \in candidates
                  /\ h[Selected(h)]
                  /\ \A s \in candidates :
                        h[s] => priority[Selected(h)] <= priority[s]

\* C14 witness: a non-active server whose stored count has reached the
\* threshold is returned when it is the one that probes healthy, and nobody
\* is returned when all probe unhealthy.
C14_Witness ==
    \E s \in Names \ {current_active_server} :
        /\ failure_counts[s] >= failure_threshold
        /\ failure_counts[current_active_server] >= failure_threshold
        /\ Selected([x \in Names |-> x = s]) = s
        /\ Selected([x \in Names |-> FALSE]) = None

\* C15: a cycle whose switch attempt failed (at the lookup or at the update)
\* leaves the active server as it was and the counts as the probes left
\* them, the active server's count at or above the threshold; and when the
\* active server probes unhealthy again in the very next cycle, that cycle
\* runs the selection again and, when a candidate probes healthy, a new
\* switch attempt.
C15_FailedSwitchRetriedNextCycle ==
    [][(last'.op = "cycle")
       => /\ last'.ret = "false"
             => /\ current_active_server' = current_active_server
                /\ failure_counts' = CountsAfterProbes
                /\ failure_counts'[current_active_server']
                      >= failure_threshold
          /\ (/\ last.op = "cycle"
              /\ last.ret = "false"
              /\ ~health'[current_active_server])
             => /\ "threshold" \in last'.report
                /\ Len(last'.probed) >= 2
                /\ (\E s \in Names \ {current_active_server} : health'[s])
                   => last'.ret # "none" /\ last'.get # "none"]_vars

\* C15 witness: the cycle before ended in a failed switch attempt; in this
\* one the active server probed unhealthy again, beyond the threshold, and a
\* new switch was attempted.
C15_Witness ==
    /\ last.op = "cycle"
    /\ last.prev = "switch_failed"
    /\ ~health[OldActive]
    /\ failure_counts[OldActive] > failure_threshold
    /\ last.ret # "none"

\* This step is a cycle whose selection finds no healthy candidate.
NoCandidateCycle == last'.op = "cycle" /\ "no_candidate" \in last'.report

\* After a cycle without a healthy candidate, the next cycle runs the
\* selection again unless the active server probes healthy, in which case
\* its count is 0 again; the repeated selection ends in a switch attempt as
\* soon as some candidate probes healthy.
SelectionRepeated ==
    (last.op = "cycle" /\ "no_candidate" \in last.report /\ last'.op = "cycle")
    => IF health'[current_active_server]
       THEN /\ failure_counts'[current_active_server] = 0
            /\ last'.probed = <<current_active_server>>
       ELSE /\ "threshold" \in last'.report
            /\ Len(last'.probed) >= 2
            /\ IF \E s \in Names \ {current_active_server} : health'[s]
               THEN last'.ret # "none"
               ELSE "no_candidate" \in last'.report

\* C16 as stated: a cycle at the threshold that finds no healthy candidate
\* leaves the active server and, apart from the active server's own probe,
\* all failure counts unchanged, and the selection is attempted again in
\* each following cycle until the active server or a candidate probes
\* healthy.
C16_NoCandidateLeavesCounts ==
    [][/\ NoCandidateCycle
          => /\ current_active_server' = current_active_server
             /\ \A s \in Names \ {current_active_server} :
                   failure_counts'[s] = failure_counts[s]
       /\ SelectionRepeated]_vars

\* C16 amended: a cycle at the threshold that finds no healthy candidate
\* leaves the active server and the record unchanged and requests nothing of
\* the store; it has probed every server unhealthy, so every count, the
\* candidates' included, is one more than before; and the selection is
\* attempted again in each following cycle until the active server or a
\* candidate probes healthy.
C16_NoCandidateCountsEveryProbe ==
    [][/\ NoCandidateCycle
          => /\ current_active_server' = current_active_server
             /\ dns_content' = dns_content
             /\ last'.get = "none" /\ last'.upd = "none"
             /\ Probed(last') = Names
             /\ \A s \in Names :
                   ~health'[s] /\ failure_counts'[s] = failure_counts[s] + 1
       /\ SelectionRepeated]_vars

\* C16 witness: two cycles in a row found no healthy candidate, the second
\* having run the selection again with every count at 2 or more.
C16_Witness ==
    /\ last.op = "cycle"
    /\ last.prev = "no_candidate"
    /\ "no_candidate" \in last.report
    /\ Len(last.probed) = Len(ServerOrder)
    /\ \A s \in Names : failure_counts[s] >= 2

\* C17 as stated: get_status is read-only; it leaves the active server, every
\* failure count and the record unchanged.
C17_StatusReadOnly ==
    [][(last'.op = "status")
       => /\ current_active_server' = current_active_server
          /\ dns_content' = dns_content
          /\ failure_counts' = failure_counts]_vars

\* C18: the failure-count map has an entry for exactly the configured
\* servers, every count is a natural number (an unhealthy probe leaves it
\* positive, never wrapped to 0 or below), a server's count is 0 right after
\* an operation that probed it healthy, and the count of a server that has
\* just become active by a successful switch is 0.
C18_CountsWellFormed ==
    /\ DOMAIN failure_counts = Names
    /\ \A s \in Names : failure_counts[s] \in Nat
    /\ last.op \in {"cycle", "status"}
       => \A s \in Probed(last) :
             IF health[s] THEN failure_counts[s] = 0
             ELSE failure_counts[s] >= 1
    /\ last.ret = "true" => failure_counts[current_active_server] = 0

\* C18 witness: a switch has just made a server active with count 0, after
\* a healthy probe of it, while the counts of the old active server and of
\* an unhealthy candidate stand at MaxCount.
C18_Witness ==
    /\ last.op = "cycle"
    /\ last.ret = "true"
    /\ health[current_active_server]
    /\ failure_counts[current_active_server] = 0
    /\ failure_counts[OldActive] = MaxCount
    /\ \E s \in Names \ {OldActive, current_active_server} :
          ~health[s] /\ failure_counts[s] = MaxCount

\* C19: a cycle in which the active server probes healthy probes nobody
\* else, requests no update and keeps the active server, whatever the other
\* servers' priorities and health; a cycle runs the selection or changes the
\* active server only when the active server probed unhealthy and its count
\* is at or above the threshold.
C19_NoAutomaticFailback ==
    (last.op = "cycle")
    => /\ health[OldActive]
          => /\ current_active_server = OldActive
             /\ last.probed = <<OldActive>>
             /\ last.updates = <<>>
       /\ (Len(last.probed) >= 2 \/ current_active_server # OldActive)
          => /\ ~health[OldActive]
             /\ failure_counts[OldActive] >= failure_threshold

\* C19 witness: the active server has just probed healthy and is still the
\* active server, the record holding its address, although a server of
\* better priority is configured and reachable.
C19_Witness ==
    /\ last.op = "cycle"
    /\ health[OldActive]
    /\ current_active_server = OldActive
    /\ dns_content = ServerIp[current_active_server]
    /\ \E s \in Names :
          /\ priority[s] < priority[current_active_server]
          /\ health[s]
          /\ failure_counts[s] = 0

\* The active server is the configured server the record designates.
RecordDesignatesActive == dns_content = ServerIp[current_active_server]

C21_CycleErrorsCaught ==
    /\ service.raised = "none"
    /\ service.pc = "exited"
       => ~load_config(service.config) \/ service.stop_requested
    /\ (last.op = "cycle" /\ "error" \in last.report /\ ~service.stop_requested)
       => service.pc \in {"initial_status", "starting", "loop"}

\* C21 witness: a cycle whose selection raised after the probe of the active
\* server and of a candidate was caught, the service went on running, and
\* the next scheduled check has begun.
C21_Witness ==
    /\ last.op = "cycle"
    /\ "error" \in last.report
    /\ Len(last.probed) >= 2
    /\ service.pc = "loop"
    /\ service.running
    /\ service.busy
    /\ service.raised = "none"

\* The configuration lacks a required section or a cloudflare parameter, or
\* has fewer than two servers.
Deficient(c) ==
    \/ \E section \in RequiredSections : section \notin c.sections
    \/ \E q \in RequiredCfParams : c.cloudflare[q] \in {"missing", "empty"}
    \/ c.servers < 2

\* No engine has been constructed and nothing has been probed or asked of
\* the store.
NothingStarted ==
    /\ current_active_server = None
    /\ last.op = "none"
    /\ last.probed = <<>> /\ last.updates = <<>> /\ last.get = "none"
    /\ failure_counts = [s \in Names |-> 0]

\* C22: under a configuration that lacks a required section or cloudflare
\* parameter or has fewer than two servers, the service is either not yet
\* started or has exited, right after its one call of load_config, with no
\* engine constructed, nothing probed and nothing asked of the store; and
\* load_config is called once, never again once cycles are running.
C22_DeficientConfigRejectedAtStartup ==
    /\ Deficient(service.config)
       => /\ service.pc = (IF service.loads = 0 THEN "created" ELSE "exited")
          /\ NothingStarted
          /\ ~service.running
    /\ service.loads <= 1
    /\ last.op \in {"init", "cycle", "status"} => service.loads = 1

\* C22 witness: a configuration complete but for having one server only has
\* been rejected, and the service has exited without an engine.
C22_Witness ==
    /\ service.pc = "exited"
    /\ service.loads = 1
    /\ service.config.sections = RequiredSections
    /\ \A q \in RequiredCfParams : service.config.cloudflare[q] = "set"
    /\ service.config.servers = 1
    /\ NothingStarted

\* ------------------------------------------------------- ServerMonitor
\* A check_method that is no string: the null of an empty YAML value, a
\* number.
NotAString == "<not a string>"

\* The values check_method is given: http and tcp in some spellings, other
\* strings, and a value that is no string.
Methods == {"http", "HTTP", "Http", "tcp", "TCP", "ping", "", NotAString}

\* str.lower on the values of Methods.
Lower(method) ==
    IF method \in {"http", "HTTP", "Http"} THEN "http"
    ELSE IF method \in {"tcp", "TCP"} THEN "tcp"
    ELSE method

\* What sock.connect_ex can do: return 0 (connected) or an error number
\* (refused, unreachable), or, like socket() and settimeout(), raise (timeout,
\* address error).
TcpAnswers ==
    {[raised |-> FALSE, result |-> 0], [raised |-> FALSE, result |-> 111],
     [raised |-> FALSE, result |-> 113], [raised |-> TRUE, result |-> 0]}

\* What requests.get can do: return the response it ends up with, redirects
\* followed, or raise (connection error, timeout, too many redirects).
HttpAnswers ==
    {[raised |-> FALSE, status_code |-> c] : c \in {200, 204, 301, 404, 499, 500, 503}}
    \cup {[raised |-> TRUE, status_code |-> 200]}

\* The first status code that counts as a failure.
ServerErrorStatus == 500

\* check_tcp_connection: True when connect_ex returns 0; any exception is
\* caught and gives False.
check_tcp_connection(tcp) ==
    [raised |-> FALSE, value |-> IF tcp.raised THEN FALSE ELSE tcp.result = 0]

\* check_http_connection: True when requests.get returns a response whose
\* status code is below 500; any exception is caught and gives False.
check_http_connection(http) ==
    [raised |-> FALSE,
     value |-> IF http.raised THEN FALSE ELSE http.status_code < ServerErrorStatus]

\* Mutant of check_server: the method is compared as it is spelled.
check_server_case_sensitive(method, tcp, http) ==
    IF method = NotAString THEN [raised |-> TRUE, value |-> FALSE]
    ELSE IF method = "http" THEN check_http_connection(http)
    ELSE check_tcp_connection(tcp)

\* check_server: the HTTP check for method http in any case, the TCP check
\* for every other string; method.lower() raises, outside any try, for a
\* method that is no string.
check_server(method, tcp, http) ==
    IF method = NotAString THEN [raised |-> TRUE, value |-> FALSE]
    ELSE IF Lower(method) = "http" THEN check_http_connection(http)
    ELSE check_tcp_connection(tcp)

\* A call of check_server about to be made, with its method and the answers
\* the network will give; the engine stands as constructed.
InitProber ==
    /\ probe \in [method : Methods, tcp : TcpAnswers, http : HttpAnswers,
                  returned : {"pending"}]
    /\ priority = ExamplePriority
    /\ failure_threshold = MaxThreshold
    /\ dns_content = ServerIp["A"]
    /\ current_active_server = "A"
    /\ failure_counts = [s \in Names |-> 0]
    /\ health = [s \in Names |-> TRUE]
    /\ last = [op |-> "init", probed |-> <<>>, get |-> "ok", upd |-> "none",
               updates |-> <<>>, ret |-> "none", report |-> {}, prev |-> "none"]
    /\ streak = 0
    /\ active_history = <<>>
    /\ service = InMainLoop

\* The call is made and returns, or raises.
CheckServer ==
    /\ probe.returned = "pending"
    /\ LET r == check_server(probe.method, probe.tcp, probe.http)
       IN  probe' = [probe EXCEPT
                       !.returned = IF r.raised THEN "raised"
                                    ELSE IF r.value THEN "true" ELSE "false"]
    /\ UNCHANGED <<engine, service>>

NextProber == CheckServer

SpecProber == InitProber /\ [][NextProber]_vars

\* What the claim lets a completed call return, given its method and the
\* network's answers.
ReturnsVerdict ==
    /\ probe.returned \in {"true", "false"}
    /\ IF probe.method \in {"http", "HTTP", "Http"}
       THEN probe.returned = "true"
               <=> (~probe.http.raised /\ probe.http.status_code < 500)
       ELSE probe.returned = "true"
               <=> (~probe.tcp.raised /\ probe.tcp.result = 0)

\* C23 as stated: a call of check_server never raises; with method http in
\* any case it returns True exactly when a response came back with a status
\* code below 500, with any other method value exactly when the TCP connect
\* succeeded.
C23_ProberNeverRaises ==
    (probe.returned # "pending") => ReturnsVerdict

\* C23 amended: a call of check_server with a string for method never
\* raises and returns True exactly when, for http in any case, a response
\* came back with a status code below 500, and for any other string, the TCP
\* connect succeeded; with a method that is no string it raises before any
\* check is made.
C23_ProberNeverRaisesOnStringMethod ==
    (probe.returned # "pending")
    => IF probe.method = NotAString
       THEN probe.returned = "raised"
       ELSE ReturnsVerdict

\* C23 witness: an HTTP check, the method spelled in capitals, that ended
\* with a redirect response returned True, while the TCP connect would have
\* raised.
C23_Witness ==
    /\ probe.method = "HTTP"
    /\ ~probe.http.raised
    /\ probe.http.status_code = 301
    /\ probe.tcp.raised
    /\ probe.returned = "true"

\* C24: an operation requests at most one update of the record, and requests
\* one only when it is a cycle in which the active server probed unhealthy
\* and its count after that probe is at or above the threshold; construction
\* and get_status request none.
C24_UpdateOnlyInTrippedCycle ==
    /\ Len(last.updates) <= 1
    /\ (last.updates # <<>> \/ last.upd # "none")
       => /\ last.op = "cycle"
          /\ ~health[OldActive]
          /\ failure_counts[OldActive] >= failure_threshold
    /\ last.op \in {"init", "status"}
       => last.updates = <<>> /\ last.upd = "none"

\* C24 witness: a cycle whose active server reached the threshold exactly
\* has requested its one update, which the store rejected.
C24_Witness ==
    /\ last.op = "cycle"
    /\ Len(last.updates) = 1
    /\ last.upd = "reject"
    /\ ~health[OldActive]
    /\ failure_counts[OldActive] = failure_threshold
    /\ failure_threshold = MaxThreshold

\* C25: every update an operation requests carries the address of a
\* configured server other than the server active when the cycle began, one
\* the cycle has probed healthy, together with the configured name, type and
\* ttl; and a successful switch leaves a different server active.
C25_UpdateCarriesHealthyOtherServer ==
    /\ \A i \in 1..Len(last.updates) :
          /\ \E s \in Probed(last) \ {OldActive} :
                /\ last.updates[i].content = ServerIp[s]
                /\ health[s]
          /\ last.updates[i].type = ConfigDns.record_type
          /\ last.updates[i].ttl = ConfigDns.ttl
          /\ last.updates[i].name = ConfigDns.domain_name
    /\ last.ret = "true" => current_active_server # OldActive

\* C25 witness: a switch from B requested one update carrying C's address,
\* C having probed healthy after A probed unhealthy.
C25_Witness ==
    /\ last.op = "cycle"
    /\ last.ret = "true"
    /\ last.probed = <<"B", "A", "C">>
    /\ last.updates = <<update_request(ServerIp["C"])>>
    /\ ~health["A"] /\ health["C"]
    /\ current_active_server = "C"

\* The environments in which some server answers.
SomeServerUp == {w \in [Names -> BOOLEAN] : \E s \in Names : w[s]}

\* C26: if from some point on the servers answer as in an environment w in
\* which some server is up, the record exists and cycles can be run, then
\* some server that is up in w eventually is, and remains, the active
\* server; and a cycle whose store requests succeed, whose active server is
\* down with a count that reaches the threshold, and in which another server
\* is up, makes a server that is up the active server at once (so within
\* threshold cycles at most).
C26_EventuallyActiveIsHealthy ==
    /\ \A w \in SomeServerUp :
          <>[](health = w /\ dns_content # None /\ ENABLED CycleStoreAnswers)
          => \E y \in Names : <>[](current_active_server = y /\ w[y])
    /\ [][(/\ last'.op = "cycle"
           /\ health' = health
           /\ StoreSucceeded(last')
           /\ dns_content # None
           /\ ~health[current_active_server]
           /\ \E s \in Names \ {current_active_server} : health[s]
           /\ failure_counts[current_active_server] + 1 >= failure_threshold)
          => /\ current_active_server' # current_active_server
             /\ health[current_active_server']]_vars

\* C26 witness: the active server is up and is not the one active before
\* the last cycle, which is down, as is a server tried ahead of it.
C26_Witness ==
    /\ last.op = "cycle"
    /\ last.ret = "true"
    /\ Len(last.probed) = 3
    /\ health[current_active_server]
    /\ ~health[OldActive]
    /\ failure_counts[OldActive] > failure_threshold

\* C27: every count starts at 0; any operation, a cycle or get_status, leaves
\* the count of a server it probed at 0 if the probe was healthy and one
\* higher if it was not, and the count of a server it did not probe as it
\* was; a successful switch leaves the new active server at 0; and a cycle
\* asks the store for a switch only when the server it started with probed
\* unhealthy and stands at the threshold or above.
C27_CountIsRunOfFailedProbes ==
    /\ \A s \in Names : failure_counts[s] = 0
    /\ [][/\ \A s \in Names :
               failure_counts'[s] =
                   IF s \in Probed(last')
                   THEN IF health'[s] THEN 0 ELSE failure_counts[s] + 1
                   ELSE failure_counts[s]
          /\ (last'.op = "cycle" /\ last'.ret = "true")
                => failure_counts'[current_active_server'] = 0
          /\ (last'.op = "cycle" /\ last'.get # "none")
                => /\ ~health'[current_active_server]
                   /\ failure_counts[current_active_server] + 1 >= failure_threshold
                   /\ failure_counts'[current_active_server] >= failure_threshold]_vars

\* C27 witness: get_status has just probed a server that is not active and
\* that has failed three probes in a row, while the active server, healthy,
\* stands at 0.
C27_Witness ==
    /\ last.op = "status"
    /\ health[current_active_server]
    /\ failure_counts[current_active_server] = 0
    /\ \E s \in Names \ {current_active_server} :
          ~health[s] /\ failure_counts[s] = 3

\* C28: the snapshot returned by get_status names the server that is active
\* when it is called, has one entry per configured server, and reports a
\* server healthy exactly when the count it reports for it is 0.
C28_StatusSnapshotConsistent ==
    [][last'.op = "status"
       => LET status == last'.status
          IN  /\ status.current_active_server = current_active_server
              /\ Len(status.servers) = Cardinality(Names)
              /\ \A s \in Names :
                    \E i \in 1..Len(status.servers) : status.servers[i].name = s
              /\ \A i \in 1..Len(status.servers) :
                    /\ status.servers[i].healthy
                          <=> status.servers[i].failure_count = 0
                    /\ status.servers[i].failure_count
                          = failure_counts'[status.servers[i].name]]_vars

\* C28 witness: a snapshot that reports one server healthy at 0 and another
\* unhealthy at a count above 1, the active server being a third.
C28_Witness ==
    /\ last.op = "status"
    /\ \E i, j \in 1..Len(last.status.servers) :
          /\ last.status.servers[i].healthy
          /\ last.status.servers[i].failure_count = 0
          /\ ~last.status.servers[j].healthy
          /\ last.status.servers[j].failure_count > 1
          /\ last.status.current_active_server
                \notin {last.status.servers[i].name, last.status.servers[j].name, None}

\* The place of a server in the configuration.
Position(s) == CHOOSE i \in 1..Len(ServerOrder) : ServerOrder[i] = s

\* s is preferred to t: smaller priority, or equal priority and earlier in
\* the configuration.
Preferred(s, t) ==
    \/ priority[s] < priority[t]
    \/ priority[s] = priority[t] /\ Position(s) < Position(t)

\* C29: the configuration alone decides the fallback, and the configuration,
\* the active server and the verdicts alone decide the candidate: the
\* startup fallback is the server preferred to every other one, and the
\* selector returns the healthy non-active server preferred to every other
\* healthy non-active one, equal priorities being settled by the order of
\* configuration.
C29_TiesByConfigurationOrder ==
    /\ \A t \in Names \ {get_highest_priority_server(priority)} :
          Preferred(get_highest_priority_server(priority), t)
    /\ (Constructed /\ NoServerResolved)
          => current_active_server = get_highest_priority_server(priority)
    /\ \A h \in Verdicts :
          Selected(h) # None
          => \A s \in Names \ {current_active_server, Selected(h)} :
                h[s] => Preferred(Selected(h), s)

\* C29 witness: all priorities are equal; construction fell back to the
\* first configured server, and the selector returns the second one when
\* all probe healthy and the third when the second does not.
C29_Witness ==
    /\ Constructed
    /\ NoServerResolved
    /\ \A s \in Names : priority[s] = priority[ServerOrder[1]]
    /\ current_active_server = ServerOrder[1]
    /\ Selected([s \in Names |-> TRUE]) = ServerOrder[2]
    /\ Selected([s \in Names |-> s # ServerOrder[2]]) = ServerOrder[3]

\* C30: once a stop has been requested the running flag is clear and stays
\* clear: it is never set back to true, so the loop's next test ends it.
C30_StopIsFinal ==
    service.stop_requested => ~service.running

\* ------------------------------------------------------ the test utilities
\* The loop over config["servers"] of both utilities: the address of the
\* first configured server whose ip differs from the record's content.
RECURSIVE FirstOtherIp(_, _)
FirstOtherIp(seq, current_ip) ==
    IF seq = <<>> THEN None
    ELSE IF ServerIp[Head(seq)] # current_ip THEN ServerIp[Head(seq)]
    ELSE FirstOtherIp(Tail(seq), current_ip)

\* A utility that ends having sent the requests reqs, the store answering
\* them as in answers ("ok": update_dns_record returned True).
ToolResult(dns, reqs, answers, ret) ==
    [dns |-> dns, updates |-> reqs, answers |-> answers, ret |-> ret]

\* test_dns_update of test.py.  getResp answers the read, updResp the test
\* update and restoreResp the restoring update.
test_dns_update(dns, dry_run, getResp, updResp, restoreResp) ==
    LET record == get_dns_record(dns, getResp)
        current_ip == record
        test_ip == FirstOtherIp(ServerOrder, current_ip)
        upd == update_dns_record(dns, test_ip, updResp)
        restore == update_dns_record(upd.dns, current_ip, restoreResp)
    IN  IF record = None THEN ToolResult(dns, <<>>, <<>>, "false")
        ELSE IF test_ip = None THEN ToolResult(dns, <<>>, <<>>, "true")
        ELSE IF dry_run THEN ToolResult(dns, <<>>, <<>>, "true")
        ELSE IF ~upd.success
        THEN ToolResult(upd.dns, <<update_request(test_ip)>>, <<updResp>>, "false")
        ELSE ToolResult(restore.dns,
                        <<update_request(test_ip), update_request(current_ip)>>,
                        <<updResp, restoreResp>>,
                        IF upd.success /\ restore.success THEN "true" ELSE "false")

\* What can end the try block of test_dns_change_with_verification early: an
\* exception raised by the checks made before the test update, by the waiting
\* and checking between the test update and the restore, or by the report
\* after the restore (all three caught by except Exception), or a
\* KeyboardInterrupt during the waiting, which except Exception lets through.
VerificationFaults ==
    {"none", "before_update", "after_update", "after_restore", "interrupt"}

\* test_dns_change_with_verification of dns_verify.py.  emergencyResp answers
\* the update sent by the except clause.
test_dns_change_with_verification(dns, getResp, updResp, restoreResp, emergencyResp, fault) ==
    LET record == get_dns_record(dns, getResp)
        original_ip == record
        test_ip == FirstOtherIp(ServerOrder, original_ip)
        upd == update_dns_record(dns, test_ip, updResp)
        restore == update_dns_record(upd.dns, original_ip, restoreResp)
        early == update_dns_record(dns, original_ip, emergencyResp)
        mid == update_dns_record(upd.dns, original_ip, emergencyResp)
        late == update_dns_record(restore.dns, original_ip, emergencyResp)
    IN  IF record = None THEN ToolResult(dns, <<>>, <<>>, "false")
        ELSE IF test_ip = None THEN ToolResult(dns, <<>>, <<>>, "false")
        ELSE IF fault = "before_update"
        THEN ToolResult(early.dns, <<update_request(original_ip)>>,
                        <<emergencyResp>>, "false")
        ELSE IF ~upd.success
        THEN ToolResult(upd.dns, <<update_request(test_ip)>>, <<updResp>>, "false")
        ELSE IF fault = "interrupt"
        THEN ToolResult(upd.dns, <<update_request(test_ip)>>, <<updResp>>, "raised")
        ELSE IF fault = "after_update"
        THEN ToolResult(mid.dns,
                        <<update_request(test_ip), update_request(original_ip)>>,
                        <<updResp, emergencyResp>>, "false")
        ELSE IF fault = "after_restore"
        THEN ToolResult(late.dns,
                        <<update_request(test_ip), update_request(original_ip),
                          update_request(original_ip)>>,
                        <<updResp, restoreResp, emergencyResp>>, "false")
        ELSE ToolResult(restore.dns,
                        <<update_request(test_ip), update_request(original_ip)>>,
                        <<updResp, restoreResp>>, "true")

\* A record about to be tested; the engine is not involved.
InitTools ==
    /\ dns_content \in DnsContents
    /\ priority = ExamplePriority
    /\ failure_threshold = MaxThreshold
    /\ current_active_server = None
    /\ failure_counts = [s \in Names |-> 0]
    /\ health = [s \in Names |-> TRUE]
    /\ last = [op |-> "none", probed |-> <<>>, get |-> "none", upd |-> "none",
               updates |-> <<>>, ret |-> "none", report |-> {}, prev |-> "none"]
    /\ streak = 0
    /\ active_history = <<>>
    /\ service = InMainLoop
    /\ probe = NoCall

\* What a run of a utility leaves: the record, and in last the requests it
\* sent, their answers, what it returned and the content it started from.
ToolRan(op, dry_run, getResp, r) ==
    /\ dns_content' = r.dns
    /\ last' = [op |-> op, probed |-> <<>>, get |-> GetOutcome(dns_content, getResp),
                upd |-> "none", updates |-> r.updates, ret |-> r.ret, report |-> {},
                prev |-> "none", dry_run |-> dry_run, answers |-> r.answers,
                original |-> dns_content]
    /\ UNCHANGED <<priority, failure_threshold, current_active_server, failure_counts,
                   health, streak, active_history, service, probe>>

\* python test.py, with or without --real-test.
TestDnsUpdate ==
    \E dry_run \in BOOLEAN, g \in {"ok", "error"},
       u \in {"ok", "reject", "error"}, v \in {"ok", "reject", "error"} :
        ToolRan("test_dns_update", dry_run, g,
                test_dns_update(dns_content, dry_run, g, u, v))

\* python dns_verify.py without --check-only.
TestDnsChangeWithVerification ==
    \E g \in {"ok", "error"}, u \in {"ok", "reject", "error"},
       v \in {"ok", "reject", "error"}, e \in {"ok", "reject", "error"},
       fault \in VerificationFaults :
        ToolRan("test_dns_change_with_verification", FALSE, g,
                test_dns_change_with_verification(dns_content, g, u, v, e, fault))

NextTools == TestDnsUpdate \/ TestDnsChangeWithVerification

SpecTools == InitTools /\ [][NextTools]_vars

\* The last operation was a run of a test utility that returned.
ToolReturned ==
    /\ last.op \in {"test_dns_update", "test_dns_change_with_verification"}
    /\ last.ret \in {"true", "false"}

\* The run's first request was the test update, to an address other than the
\* original content, and it succeeded.
TestUpdateSucceeded ==
    /\ Len(last.updates) >= 1
    /\ last.updates[1].content # last.original
    /\ last.answers[1] = "ok"

\* A dry run sent no update request.
DryRunSendsNothing ==
    (ToolReturned /\ last.dry_run) => last.updates = <<>>

\* After a successful test update a request restoring the original content
\* was sent before the utility returned.
RestoreRequested ==
    (ToolReturned /\ TestUpdateSucceeded)
    => \E i \in 2..Len(last.updates) :
          last.updates[i] = update_request(last.original)

\* A utility whose restoring request failed returned False.
FailedRestoreReported ==
    (ToolReturned /\ TestUpdateSucceeded)
    => ((\E i \in 2..Len(last.updates) : last.answers[i] # "ok") => last.ret = "false")

\* C31: a dry run of test_dns_update sends no update request; a utility
\* whose test update succeeded has sent a request restoring the original
\* content when it returns, and returns False if that restore failed.
C31_TestsRestoreRecord ==
    /\ DryRunSendsNothing
    /\ RestoreRequested
    /\ FailedRestoreReported
====
